---- MODULE Spec2Model ----
(***************************************************************************)
(* A model of the particle simulation of src/particles/main.cpp: the frame *)
(* loop (clock, integrator, boundary handling, grid rebuild, partition,    *)
(* spawn of the worker threads, join, draw) and the resolver pass the      *)
(* workers run concurrently over the grid cells.                           *)
(*                                                                         *)
(* Numbers.  The program computes in float and double.  The model keeps    *)
(* every coordinate, velocity, radius and factor as an integer count of    *)
(* hundredths (Scale), the resolution of the literals 0.01f and 0.1f:      *)
(* products and quotients are rounded toward zero to that resolution, as   *)
(* float arithmetic rounds to its own, and the square root is the floor    *)
(* square root.  A float result too large for the type is infinity; the    *)
(* model's values saturate at FloatMax in the same way.  Plain ints (cell  *)
(* keys, indices, counts) are integers.                                    *)
(***************************************************************************)
EXTENDS Integers, Sequences, FiniteSets, TLC

(***************************************************************************)
(* Bounds of the model.                                                    *)
(***************************************************************************)
\* particles of the model (NUM_PARTICLES of the program is 100000)
NumParticles == 3
\* frames after which the window is closed
MaxFrames == 2
\* largest value hardware_concurrency() reports in the model; in the frame
\* loop it reports at least 1, the fallback for 0 is applied alone
MaxHw == 2
\* largest number of occupied cells the partition is probed with
MaxCells == 6
\* largest whole coordinate (either sign) computeCellKey is probed with
MaxCoord == 21

(***************************************************************************)
(* Program constants.                                                      *)
(***************************************************************************)
Scale == 100
WINDOW_X == 1200
WINDOW_Y == 800
GRAVITY == 1000
CELL_SIZE == 10
\* ENTROPY 0.01f, in hundredths
ENTROPY == 1
\* numThreads = 4 when hardware_concurrency() returns 0
DefaultThreads == 4
\* RADIUS 0.5f of main.cpp and RADIUS 5.0f of defs.h, in hundredths: which
\* of the two definitions the build sees depends on the include order
RADIUS == Scale \div 2
RADIUS_DEFS == 5 * Scale
\* distance = 0.1f of the degenerate case, in hundredths
DegenerateDistance == Scale \div 10

Particles == 0 .. (NumParticles - 1)
Threads == 0 .. (MaxHw - 1)
NoThread == -1

(***************************************************************************)
(* Arithmetic of the program.                                              *)
(***************************************************************************)
\* int / int, and static_cast<int>(float): both round toward zero
TruncDiv(a, b) ==
    IF a >= 0 THEN a \div b ELSE -((-a) \div b)

\* a % b of non-negative ints
Rem(a, b) == a % b

Abs(a) == IF a >= 0 THEN a ELSE -a

Sign(a) == IF a > 0 THEN 1 ELSE IF a < 0 THEN -1 ELSE 0

\* the largest magnitude a float of the model holds
FloatMax == 2 * Scale * Scale * Scale * 10

\* a float result: out of range it is +-infinity
Sat(x) == IF x > FloatMax THEN FloatMax ELSE IF x < -FloatMax THEN -FloatMax ELSE x

\* a float product and a float quotient, rounded to the model's resolution
FMul(a, b) ==
    IF a = 0 \/ b = 0 THEN 0
    ELSE IF Abs(a) > (FloatMax * Scale) \div Abs(b) THEN Sign(a) * Sign(b) * FloatMax
    ELSE Sat(TruncDiv(a * b, Scale))

FDiv(a, b) ==
    IF a = 0 THEN 0
    ELSE IF Abs(a) > FloatMax THEN Sign(a) * Sign(b) * FloatMax
    ELSE Sat(Sign(b) * TruncDiv(a * Scale, Abs(b)))

\* a float sum
FAdd(a, b) == Sat(a + b)

\* std::sqrt of a squared length
RECURSIVE SqrtIn(_, _, _)
SqrtIn(q, lo, hi) ==
    IF hi - lo <= 1 THEN lo
    ELSE LET mid == (lo + hi) \div 2
         IN  IF mid * mid <= q THEN SqrtIn(q, mid, hi) ELSE SqrtIn(q, lo, mid)

\* the root lies below Scale * Scale * 4, the square of which an int holds
Sqrt(q) == SqrtIn(q, 0, IF q < Scale * Scale * 4 THEN q + 1 ELSE Scale * Scale * 4)

StaticCastInt(x) == TruncDiv(x, Scale)

\* the key of cells half as wide: the division by CELL_SIZE / 2
computeCellKeyHalf(x, y) ==
    << TruncDiv(StaticCastInt(x), CELL_SIZE \div 2),
       TruncDiv(StaticCastInt(y), CELL_SIZE \div 2) >>

\* CellKey computeCellKey(float x, float y)
computeCellKey(x, y) ==
    << TruncDiv(StaticCastInt(x), CELL_SIZE), TruncDiv(StaticCastInt(y), CELL_SIZE) >>

RECURSIVE Flatten(_)
Flatten(ss) ==
    IF Len(ss) = 0 THEN << >> ELSE Head(ss) \o Flatten(Tail(ss))

(***************************************************************************)
(* State.                                                                  *)
(***************************************************************************)
VARIABLES
    pc,             \* where the main thread is in the frame loop
    open,           \* window.isOpen()
    frame,          \* frames started so far
    dt,             \* the frame's elapsed time, in whole seconds
    radius,         \* float radius = RADIUS
    numThreads,     \* unsigned int numThreads
    pos, vel, acc,  \* matrix positions, velocities, accelerations
    grid,           \* std::unordered_map<CellKey, std::vector<int>> grid
    CellKeys,       \* std::vector<CellKey> CellKeys
    totalCells, cellsPerThread, extraCells, currentIndex,
    threads,        \* std::vector<std::thread> threads
    joined,         \* threads of the list already joined
    wpc,            \* each worker's position in processCells
    wrange,         \* each worker's arguments start, end
    wwork,          \* the pair tests the loops of each worker's range run
    wk,             \* each worker's position in these tests
    wloc,           \* each worker's locals v1, v2 and the lock it takes first
    mutex,          \* std::vector<std::mutex> particleMutexes: the owner
    detected,       \* the pairs found colliding in this resolver pass
    tested,         \* how often each pair was tested in this resolver pass
    velBefore,      \* the velocities this resolver pass started with
    probe           \* the argument and result of a function applied alone

frameVars == << open, frame, dt, radius, numThreads >>
simVars == << pos, vel, acc >>
gridVars == << grid, CellKeys, totalCells, cellsPerThread, extraCells >>
workerVars == << wpc, wrange, wwork, wk, wloc, mutex >>
passVars == << detected, tested, velBefore >>
vars == << pc, frameVars, simVars, gridVars, currentIndex, threads, joined,
           workerVars, passVars, probe >>

Pairs == { pr \in SUBSET Particles : Cardinality(pr) \in {1, 2} }

\* positions a particle starts at, velocities it starts with
Places ==
    { << 20 * Scale, 14 * Scale >>, << 26 * Scale, 14 * Scale >>,
      << 20 * Scale, 22 * Scale >> }

InitVels == { << -Scale, 0 >>, << 0, -Scale >> }

Radii == { RADIUS, RADIUS_DEFS }

DtValues == { -1, 1 }

NoLocals == [ first |-> 0, v1 |-> << 0, 0 >>, v2 |-> << 0, 0 >> ]

NoProbe == [ op |-> "none" ]

\* hardware_concurrency() and its fallback
ThreadCount(hw) == IF hw = 0 THEN DefaultThreads ELSE hw

(***************************************************************************)
(* The integrator and the boundary handler.                                *)
(***************************************************************************)
\* cblas_daxpy(n, a, x, 1, y, 1): y = y + a * x
Daxpy(a, x, y) ==
    [ i \in Particles |-> << FAdd(y[i][1], a * x[i][1]), FAdd(y[i][2], a * x[i][2]) >> ]

\* Particle::handleBoundaryCollision, one axis: << position, velocity >>
BounceAxis(p, v, r, limit) ==
    IF p - r < 0 THEN << r, -v >>
    ELSE IF p + r > limit THEN << limit - r, -v >>
    ELSE << p, v >>

(***************************************************************************)
(* The grid.                                                               *)
(***************************************************************************)
EmptyGrid == [ k \in {} |-> << >> ]

\* the rebuild without the clear: the buckets of the last frame are kept
GridClearOmitted(g) == g

\* grid.clear()
GridClear(g) == EmptyGrid

\* grid[key].push_back(i)
GridInsert(g, key, i) ==
    IF key \in DOMAIN g
    THEN [ g EXCEPT ![key] = Append(@, i) ]
    ELSE [ k \in DOMAIN g \cup {key} |-> IF k = key THEN << i >> ELSE g[k] ]

\* for (int i = 0; i < NUM_PARTICLES; ++i) grid[computeCellKey(x, y)].push_back(i)
RECURSIVE GridFill(_, _, _)
GridFill(g, p, i) ==
    IF i >= NumParticles THEN g
    ELSE GridFill(GridInsert(g, computeCellKey(p[i][1], p[i][2]), i), p, i + 1)

\* the vector grid[key] refers to (std::unordered_map operator[]): the
\* bucket of the key, an empty vector for a key that was absent
Bucket(g, key) == IF key \in DOMAIN g THEN g[key] ELSE << >>

\* the neighbour looked up whether the map holds its key or not
NeighborPresentAlways(g, key) == TRUE

\* if (grid.count(neighborKey))
NeighborPresent(g, key) == key \in DOMAIN g

\* the orders in which a range-for over the unordered_map may visit its keys
KeyOrders(g) ==
    { s \in [ 1 .. Cardinality(DOMAIN g) -> DOMAIN g ] :
        \A a, b \in DOMAIN s : a # b => s[a] # s[b] }

(***************************************************************************)
(* The partition of the cells among the workers.                           *)
(***************************************************************************)
\* the count with the comparison off by one: t <= extraCells
RangeCountInclusive(t, perThread, extra) ==
    perThread + (IF t <= extra THEN 1 ELSE 0)

\* the count without the remainder: cellsPerThread alone
RangeCountNoExtra(t, perThread, extra) == perThread

\* int count = cellsPerThread + (t < extraCells ? 1 : 0)
RangeCount(t, perThread, extra) ==
    perThread + (IF t < extra THEN 1 ELSE 0)

\* the spawn loop alone: the ranges << start, end >> handed to workers 0 .. T-1
RECURSIVE SpawnRanges(_, _, _, _, _)
SpawnRanges(t, T, perThread, extra, current) ==
    IF t >= T THEN << >>
    ELSE LET end == current + RangeCount(t, perThread, extra)
         IN  << << current, end >> >> \o SpawnRanges(t + 1, T, perThread, extra, end)

(***************************************************************************)
(* processCells: the pair tests of a cell, in the order of its loops.      *)
(***************************************************************************)
\* the inner loop started at the outer index: size_t b = a
IntraFirstBSame(a) == a

\* size_t b = a + 1
IntraFirstB(a) == a + 1

IntraTests(cp) ==
    Flatten([ a \in 1 .. Len(cp) |->
        [ b \in 1 .. (Len(cp) - IntraFirstB(a) + 1) |->
            [ i |-> cp[a], j |-> cp[IntraFirstB(a) + b - 1], kind |-> "intra" ] ] ])

\* the neighbour loops started at 0: for dx in 0 .. 1, for dy in 0 .. 1
NeighborOffsetsForward == << << 0, 1 >>, << 1, 0 >>, << 1, 1 >> >>

\* for dx in -1 .. 1, for dy in -1 .. 1, if (dx == 0 && dy == 0) continue
NeighborOffsets ==
    SelectSeq(Flatten([ dx \in 1 .. 3 |-> [ dy \in 1 .. 3 |-> << dx - 2, dy - 2 >> ] ]),
              LAMBDA o : ~(o[1] = 0 /\ o[2] = 0))

\* the neighbour loops without the tie-break: every i, j of the two cells
InterGuardNone(i, j) == TRUE

\* if (i < j)
InterGuard(i, j) == i < j

InterTests(key, g) ==
    Flatten([ n \in 1 .. Len(NeighborOffsets) |->
        LET neighborKey == << key[1] + NeighborOffsets[n][1],
                              key[2] + NeighborOffsets[n][2] >>
        IN  IF NeighborPresent(g, neighborKey)
            THEN SelectSeq(
                   Flatten([ a \in 1 .. Len(g[key]) |->
                       [ b \in 1 .. Len(Bucket(g, neighborKey)) |->
                           [ i |-> g[key][a], j |-> Bucket(g, neighborKey)[b],
                             kind |-> "inter" ] ] ]),
                   LAMBDA p : InterGuard(p.i, p.j))
            ELSE << >> ])

CellTests(key, g) == IntraTests(g[key]) \o InterTests(key, g)

\* the tests of processCells(start, end)
RangeTests(start, end, keys, g) ==
    Flatten([ c \in 1 .. (end - start) |-> CellTests(keys[start + c], g) ])

WorkList(t) == wwork[t]

\* the keys processCells(start, end) looks up with grid[...]: the key of
\* every cell of the range, and every neighbour key the count finds
LookupKeys(start, end, keys, g) ==
    UNION { { keys[c] } \cup
            { neighborKey \in { << keys[c][1] + NeighborOffsets[n][1],
                                   keys[c][2] + NeighborOffsets[n][2] >> :
                                 n \in 1 .. Len(NeighborOffsets) } :
                NeighborPresent(g, neighborKey) } :
            c \in (start + 1) .. end }

\* the map after the lookups of processCells(start, end): operator[] has
\* inserted, with an empty vector, every key looked up that was absent
RangeLookups(start, end, keys, g) ==
    [ k \in DOMAIN g \cup LookupKeys(start, end, keys, g) |-> Bucket(g, k) ]

(***************************************************************************)
(* processCells: the collision test and the impulse.                       *)
(***************************************************************************)
Dist2(p, i, j) ==
    (p[j][1] - p[i][1]) * (p[j][1] - p[i][1])
    + (p[j][2] - p[i][2]) * (p[j][2] - p[i][2])

\* if (dist2 < radiusSum * radiusSum)
Collides(p, r, i, j) == Dist2(p, i, j) < (r + r) * (r + r)

\* the measured distance as it is, zero included
NormalDivisorMeasured(dx, dy) == Sqrt(dx * dx + dy * dy)

\* float distance = std::sqrt(dist2); if (distance == 0.f) distance = 0.1f:
\* the divisor of nx and ny
NormalDivisor(dx, dy) ==
    IF Sqrt(dx * dx + dy * dy) = 0 THEN DegenerateDistance ELSE Sqrt(dx * dx + dy * dy)

\* << nx, ny >> of a colliding pair with separation << dx, dy >>
Normal(dx, dy, radiusSum) ==
    IF Sqrt(dx * dx + dy * dy) = 0
    THEN << FDiv(radiusSum, NormalDivisor(dx, dy)), FDiv(0, NormalDivisor(dx, dy)) >>
    ELSE << FDiv(dx, NormalDivisor(dx, dy)), FDiv(dy, NormalDivisor(dx, dy)) >>

PairNormal(p, r, i, j) == Normal(p[j][1] - p[i][1], p[j][2] - p[i][2], r + r)

\* float relVel = (v1x - v2x) * nx + (v1y - v2y) * ny
RelVel(v1, v2, n) ==
    FAdd(FMul(FAdd(v1[1], -v2[1]), n[1]), FMul(FAdd(v1[2], -v2[2]), n[2]))

\* impulse * n * (1 - ENTROPY), one component
Transfer(impulse, nc, entropy) == FMul(FMul(impulse, nc), Scale - entropy)

\* the velocities written for particle i and for particle j
NewVelI(v1, v2, n, entropy) ==
    << FAdd(v1[1], -Transfer(RelVel(v1, v2, n), n[1], entropy)),
       FAdd(v1[2], -Transfer(RelVel(v1, v2, n), n[2], entropy)) >>

NewVelJ(v1, v2, n, entropy) ==
    << FAdd(v2[1], Transfer(RelVel(v1, v2, n), n[1], entropy)),
       FAdd(v2[2], Transfer(RelVel(v1, v2, n), n[2], entropy)) >>

(***************************************************************************)
(* The frame loop of main.                                                 *)
(***************************************************************************)
\* the state main has built when it reaches the frame loop
Start(r, T, p, v) ==
    /\ pc = "loop"
    /\ open = TRUE
    /\ frame = 0
    /\ dt = 0
    /\ radius = r
    /\ numThreads = T
    /\ pos = p
    /\ vel = v
    /\ acc = [ i \in Particles |-> << 0, GRAVITY * Scale >> ]
    /\ grid = EmptyGrid
    /\ CellKeys = << >>
    /\ totalCells = 0
    /\ cellsPerThread = 0
    /\ extraCells = 0
    /\ currentIndex = 0
    /\ threads = << >>
    /\ joined = 0
    /\ wpc = [ t \in Threads |-> "none" ]
    /\ wrange = [ t \in Threads |-> << 0, 0 >> ]
    /\ wwork = [ t \in Threads |-> << >> ]
    /\ wk = [ t \in Threads |-> 0 ]
    /\ wloc = [ t \in Threads |-> NoLocals ]
    /\ mutex = [ i \in Particles |-> NoThread ]
    /\ detected = {}
    /\ tested = [ pr \in Pairs |-> 0 ]
    /\ velBefore = v

Init ==
    /\ \E r \in Radii, hw \in 1 .. MaxHw :
       \E p \in [ Particles -> Places ], v \in [ Particles -> InitVels ] :
          Start(r, ThreadCount(hw), p, v)
    /\ probe = NoProbe

\* while (window.isOpen()) fails: the particles are deleted, main returns
LoopExit ==
    /\ pc = "loop"
    /\ ~open
    /\ pc' = "exit"
    /\ UNCHANGED << frameVars, simVars, gridVars, currentIndex, threads, joined,
                    workerVars, passVars, probe >>

\* the event poll, which closes the window in frame MaxFrames, and
\* dt = clock.restart().asSeconds()
PollAndClock ==
    /\ pc = "loop"
    /\ open
    /\ open' = (frame + 1 < MaxFrames)
    /\ dt' \in DtValues
    /\ frame' = frame + 1
    /\ pc' = "integrate"
    /\ UNCHANGED << radius, numThreads, simVars, gridVars, currentIndex, threads,
                    joined, workerVars, passVars, probe >>

\* the two calls in the other order: the velocities are advanced first and
\* the positions use the new ones
IntegrateVelocityFirst ==
    /\ pc = "integrate"
    /\ vel' = Daxpy(dt, acc, vel)
    /\ pos' = Daxpy(dt, vel', pos)
    /\ pc' = "boundary"
    /\ UNCHANGED << frameVars, acc, gridVars, currentIndex, threads, joined,
                    workerVars, passVars, probe >>

\* the integrator followed at once by the grid rebuild: no boundary handling
IntegrateSkipsBoundary ==
    /\ pc = "integrate"
    /\ pos' = Daxpy(dt, vel, pos)
    /\ vel' = Daxpy(dt, acc, vel)
    /\ pc' = "grid"
    /\ UNCHANGED << frameVars, acc, gridVars, currentIndex, threads, joined,
                    workerVars, passVars, probe >>

\* the two cblas_daxpy calls
Integrate ==
    /\ pc = "integrate"
    /\ pos' = Daxpy(dt, vel, pos)
    /\ vel' = Daxpy(dt, acc, vel)
    /\ pc' = "boundary"
    /\ UNCHANGED << frameVars, acc, gridVars, currentIndex, threads, joined,
                    workerVars, passVars, probe >>

\* handleBoundaryCollision(window.getSize()) of every particle
Boundary ==
    /\ pc = "boundary"
    /\ pos' = [ i \in Particles |->
                  << BounceAxis(pos[i][1], vel[i][1], radius, WINDOW_X * Scale)[1],
                     BounceAxis(pos[i][2], vel[i][2], radius, WINDOW_Y * Scale)[1] >> ]
    /\ vel' = [ i \in Particles |->
                  << BounceAxis(pos[i][1], vel[i][1], radius, WINDOW_X * Scale)[2],
                     BounceAxis(pos[i][2], vel[i][2], radius, WINDOW_Y * Scale)[2] >> ]
    /\ pc' = "grid"
    /\ UNCHANGED << frameVars, acc, gridVars, currentIndex, threads, joined,
                    workerVars, passVars, probe >>

\* grid.clear(), the inserts, CellKeys and the sizes of the partition
GridRebuild ==
    /\ pc = "grid"
    /\ grid' = GridFill(GridClear(grid), pos, 0)
    /\ CellKeys' \in KeyOrders(grid')
    /\ totalCells' = Len(CellKeys')
    /\ cellsPerThread' = totalCells' \div numThreads
    /\ extraCells' = Rem(totalCells', numThreads)
    /\ currentIndex' = 0
    /\ detected' = {}
    /\ tested' = [ pr \in Pairs |-> 0 ]
    /\ velBefore' = vel
    /\ pc' = "spawn"
    /\ UNCHANGED << frameVars, simVars, threads, joined, workerVars, probe >>

\* one iteration of the spawn loop: threads.emplace_back(processCells, start, end)
SpawnThread ==
    /\ pc = "spawn"
    /\ LET t == Len(threads)
           end == currentIndex + RangeCount(t, cellsPerThread, extraCells)
       IN  /\ threads' = Append(threads, t)
           /\ wrange' = [ wrange EXCEPT ![t] = << currentIndex, end >> ]
           /\ wwork' = [ wwork EXCEPT ![t] = RangeTests(currentIndex, end, CellKeys, grid) ]
           /\ wpc' = [ wpc EXCEPT ![t] = "test" ]
           /\ wk' = [ wk EXCEPT ![t] = 1 ]
           /\ currentIndex' = end
           /\ pc' = IF t + 1 < numThreads THEN "spawn" ELSE "join"
    /\ joined' = 0
    /\ UNCHANGED << frameVars, simVars, gridVars, wloc, mutex, passVars, probe >>

\* a join that returns at once, the worker done or not
JoinThreadNoWait ==
    /\ pc = "join"
    /\ joined < Len(threads)
    /\ wpc' = [ wpc EXCEPT ![threads[joined + 1]] = IF @ = "done" THEN "joined" ELSE @ ]
    /\ joined' = joined + 1
    /\ UNCHANGED << pc, frameVars, simVars, gridVars, currentIndex, threads, wrange,
                    wwork, wk, wloc, mutex, passVars, probe >>

\* th.join() of the next thread of the list: returns once that worker is done
JoinThread ==
    /\ pc = "join"
    /\ joined < Len(threads)
    /\ wpc[threads[joined + 1]] = "done"
    /\ wpc' = [ wpc EXCEPT ![threads[joined + 1]] = "joined" ]
    /\ joined' = joined + 1
    /\ UNCHANGED << pc, frameVars, simVars, gridVars, currentIndex, threads, wrange,
                    wwork, wk, wloc, mutex, passVars, probe >>

\* threads.clear()
ClearThreads ==
    /\ pc = "join"
    /\ joined = Len(threads)
    /\ threads' = << >>
    /\ wpc' = [ t \in Threads |-> IF wpc[t] = "joined" THEN "none" ELSE wpc[t] ]
    /\ wrange' = [ t \in Threads |-> << 0, 0 >> ]
    /\ wwork' = [ t \in Threads |-> << >> ]
    /\ wk' = [ t \in Threads |-> 0 ]
    /\ pc' = "draw"
    /\ UNCHANGED << frameVars, simVars, gridVars, currentIndex, joined, wloc, mutex,
                    passVars, probe >>

\* window.clear(), draw of every particle, window.display()
Draw ==
    /\ pc = "draw"
    /\ pc' = "loop"
    /\ UNCHANGED << frameVars, simVars, gridVars, currentIndex, threads, joined,
                    workerVars, passVars, probe >>

(***************************************************************************)
(* processCells, as one worker thread t runs it.                           *)
(***************************************************************************)
\* the pair the worker is at
Cur(t) == WorkList(t)[wk[t]]

CurPair(t) == { Cur(t).i, Cur(t).j }

\* the particle whose mutex std::lock takes first, and the other one
FirstLock(t) == IF wloc[t].first = 0 THEN Cur(t).i ELSE Cur(t).j

OtherLock(t) == IF wloc[t].first = 0 THEN Cur(t).j ELSE Cur(t).i

\* the loops are exhausted, the map lookups of the range are all made: the
\* lambda returns
WFinish(t) ==
    /\ wpc[t] = "test"
    /\ wk[t] > Len(WorkList(t))
    /\ grid' = RangeLookups(wrange[t][1], wrange[t][2], CellKeys, grid)
    /\ wpc' = [ wpc EXCEPT ![t] = "done" ]
    /\ UNCHANGED << pc, frameVars, simVars, CellKeys, totalCells, cellsPerThread,
                    extraCells, currentIndex, threads, joined,
                    wrange, wwork, wk, wloc, mutex, passVars, probe >>

\* the distance test of the next pair fails
WTestFar(t) ==
    /\ wpc[t] = "test"
    /\ wk[t] <= Len(WorkList(t))
    /\ ~Collides(pos, radius, Cur(t).i, Cur(t).j)
    /\ tested' = [ tested EXCEPT ![CurPair(t)] = @ + 1 ]
    /\ wk' = [ wk EXCEPT ![t] = @ + 1 ]
    /\ UNCHANGED << pc, frameVars, simVars, gridVars, currentIndex, threads, joined,
                    wpc, wrange, wwork, wloc, mutex, detected, velBefore, probe >>

\* the distance test of the next pair succeeds
WTestHit(t) ==
    /\ wpc[t] = "test"
    /\ wk[t] <= Len(WorkList(t))
    /\ Collides(pos, radius, Cur(t).i, Cur(t).j)
    /\ tested' = [ tested EXCEPT ![CurPair(t)] = @ + 1 ]
    /\ detected' = detected \cup { CurPair(t) }
    /\ wpc' = [ wpc EXCEPT ![t] = "readi" ]
    /\ UNCHANGED << pc, frameVars, simVars, gridVars, currentIndex, threads, joined,
                    wrange, wwork, wk, wloc, mutex, velBefore, probe >>

\* v1x, v1y are read, no lock held
WReadI(t) ==
    /\ wpc[t] = "readi"
    /\ wloc' = [ wloc EXCEPT ![t].v1 = vel[Cur(t).i] ]
    /\ wpc' = [ wpc EXCEPT ![t] = "readj" ]
    /\ UNCHANGED << pc, frameVars, simVars, gridVars, currentIndex, threads, joined,
                    wrange, wwork, wk, mutex, passVars, probe >>

\* v2x, v2y are read, no lock held
WReadJ(t) ==
    /\ wpc[t] = "readj"
    /\ wloc' = [ wloc EXCEPT ![t].v2 = vel[Cur(t).j], ![t].first = 0 ]
    /\ wpc' = [ wpc EXCEPT ![t] = "lock" ]
    /\ UNCHANGED << pc, frameVars, simVars, gridVars, currentIndex, threads, joined,
                    wrange, wwork, wk, mutex, passVars, probe >>

\* std::scoped_lock, that is std::lock: block on the first mutex
WLockFirst(t) ==
    /\ wpc[t] = "lock"
    /\ mutex[FirstLock(t)] = NoThread
    /\ mutex' = [ mutex EXCEPT ![FirstLock(t)] = t ]
    /\ wpc' = [ wpc EXCEPT ![t] = "try" ]
    /\ UNCHANGED << pc, frameVars, simVars, gridVars, currentIndex, threads, joined,
                    wrange, wwork, wk, wloc, passVars, probe >>

\* a lock of the first mutex alone: the other one is never taken
WTryOtherSkipped(t) ==
    /\ wpc[t] = "try"
    /\ wpc' = [ wpc EXCEPT ![t] = "writei" ]
    /\ UNCHANGED << pc, frameVars, simVars, gridVars, currentIndex, threads, joined,
                    wrange, wwork, wk, wloc, mutex, passVars, probe >>

\* std::lock: try_lock the other mutex, and on failure release the first
\* and start over from the other
WTryOther(t) ==
    /\ wpc[t] = "try"
    /\ \/ /\ mutex[OtherLock(t)] = NoThread
          /\ mutex' = [ mutex EXCEPT ![OtherLock(t)] = t ]
          /\ wpc' = [ wpc EXCEPT ![t] = "writei" ]
          /\ wloc' = wloc
       \/ /\ mutex[OtherLock(t)] # NoThread
          /\ mutex' = [ mutex EXCEPT ![FirstLock(t)] = NoThread ]
          /\ wloc' = [ wloc EXCEPT ![t].first = 1 - @ ]
          /\ wpc' = [ wpc EXCEPT ![t] = "lock" ]
    /\ UNCHANGED << pc, frameVars, simVars, gridVars, currentIndex, threads, joined,
                    wrange, wwork, wk, passVars, probe >>

\* particles[i]->vel[X], vel[Y] are written
WWriteI(t) ==
    /\ wpc[t] = "writei"
    /\ vel' = [ vel EXCEPT ![Cur(t).i] =
                  NewVelI(wloc[t].v1, wloc[t].v2,
                          PairNormal(pos, radius, Cur(t).i, Cur(t).j), ENTROPY) ]
    /\ wpc' = [ wpc EXCEPT ![t] = "writej" ]
    /\ UNCHANGED << pc, frameVars, pos, acc, gridVars, currentIndex, threads, joined,
                    wrange, wwork, wk, wloc, mutex, passVars, probe >>

\* particles[j]->vel[X], vel[Y] are written
WWriteJ(t) ==
    /\ wpc[t] = "writej"
    /\ vel' = [ vel EXCEPT ![Cur(t).j] =
                  NewVelJ(wloc[t].v1, wloc[t].v2,
                          PairNormal(pos, radius, Cur(t).i, Cur(t).j), ENTROPY) ]
    /\ wpc' = [ wpc EXCEPT ![t] = "unlock" ]
    /\ UNCHANGED << pc, frameVars, pos, acc, gridVars, currentIndex, threads, joined,
                    wrange, wwork, wk, wloc, mutex, passVars, probe >>

\* a scope left without the release: both mutexes stay locked
WUnlockKeepsLocks(t) ==
    /\ wpc[t] = "unlock"
    /\ wloc' = [ wloc EXCEPT ![t] = NoLocals ]
    /\ wk' = [ wk EXCEPT ![t] = @ + 1 ]
    /\ wpc' = [ wpc EXCEPT ![t] = "test" ]
    /\ UNCHANGED << pc, frameVars, simVars, gridVars, currentIndex, threads, joined,
                    wrange, wwork, mutex, passVars, probe >>

\* the scoped_lock leaves its scope: both mutexes are released
WUnlock(t) ==
    /\ wpc[t] = "unlock"
    /\ mutex' = [ m \in Particles |-> IF m \in CurPair(t) THEN NoThread ELSE mutex[m] ]
    /\ wloc' = [ wloc EXCEPT ![t] = NoLocals ]
    /\ wk' = [ wk EXCEPT ![t] = @ + 1 ]
    /\ wpc' = [ wpc EXCEPT ![t] = "test" ]
    /\ UNCHANGED << pc, frameVars, simVars, gridVars, currentIndex, threads, joined,
                    wrange, wwork, passVars, probe >>

Worker(t) ==
    \/ WFinish(t)
    \/ WTestFar(t)
    \/ WTestHit(t)
    \/ WReadI(t)
    \/ WReadJ(t)
    \/ WLockFirst(t)
    \/ WTryOther(t)
    \/ WWriteI(t)
    \/ WWriteJ(t)
    \/ WUnlock(t)

Next ==
    \/ LoopExit
    \/ PollAndClock
    \/ Integrate
    \/ Boundary
    \/ GridRebuild
    \/ SpawnThread
    \/ JoinThread
    \/ ClearThreads
    \/ Draw
    \/ \E t \in Threads : Worker(t)

Spec == Init /\ [][Next]_vars

(***************************************************************************)
(* The frame loop under fair scheduling: the main thread and every worker  *)
(* thread keep being scheduled, so a step one of them can take for ever is *)
(* eventually taken.  The particles start in one of the places, at rest    *)
(* relative to each other, with the radius of defs.h.                      *)
(***************************************************************************)
\* the steps of the main thread
Main ==
    \/ LoopExit
    \/ PollAndClock
    \/ Integrate
    \/ Boundary
    \/ GridRebuild
    \/ SpawnThread
    \/ JoinThread
    \/ ClearThreads
    \/ Draw

LiveInit ==
    /\ \E hw \in 1 .. MaxHw : \E p \in [ Particles -> Places ] :
          Start(RADIUS_DEFS, ThreadCount(hw), p, [ i \in Particles |-> << -Scale, 0 >> ])
    /\ probe = NoProbe

Fairness ==
    /\ WF_vars(Main)
    /\ \A t \in Threads : WF_vars(Worker(t))

LiveSpec == LiveInit /\ [][Next]_vars /\ Fairness

(***************************************************************************)
(* The functions of the program applied alone, to arguments drawn from     *)
(* bounded sets: computeCellKey, the partition of the spawn loop, and the  *)
(* impulse of one colliding pair.                                          *)
(***************************************************************************)
\* coordinates in steps of half a unit, of either sign
KeyCoords == { c * (Scale \div 2) : c \in (-2 * MaxCoord) .. (2 * MaxCoord) }

\* separations of a colliding pair whose length the model's resolution holds
\* exactly, the coincident pair among them
Separations ==
    { << 0, 0 >>, << Scale \div 2, 0 >>, << -(Scale \div 2), 0 >>, << 0, Scale \div 2 >>,
      << (3 * Scale) \div 2, 0 >>, << 6 * Scale, 0 >>, << 0, -8 * Scale >>,
      << 3 * Scale, 4 * Scale >>, << -4 * Scale, 3 * Scale >>,
      << (3 * Scale) \div 10, -(4 * Scale) \div 10 >> }

ProbeRadii == Radii \cup { Scale }

ProbeVels == { << Scale, 0 >>, << -Scale, 0 >>, << 0, 0 >>, << 0, -Scale >> }

Entropies == { 0, ENTROPY }

PureInit ==
    /\ Start(RADIUS, 1, [ i \in Particles |-> << 20 * Scale, 14 * Scale >> ],
             [ i \in Particles |-> << 0, 0 >> ])
    /\ probe = NoProbe

\* computeCellKey(x, y)
ProbeKey ==
    /\ probe = NoProbe
    /\ \E x \in KeyCoords, y \in KeyCoords :
          probe' = [ op |-> "key", x |-> x, y |-> y, key |-> computeCellKey(x, y) ]
    /\ UNCHANGED << pc, frameVars, simVars, gridVars, currentIndex, threads, joined,
                    workerVars, passVars >>

\* numThreads, cellsPerThread, extraCells and the spawn loop for C occupied cells
ProbePartition ==
    /\ probe = NoProbe
    /\ \E C \in 0 .. MaxCells, hw \in 0 .. (MaxHw + 3) :
          LET T == ThreadCount(hw)
          IN  probe' = [ op |-> "partition", cells |-> C, hw |-> hw, T |-> T,
                         ranges |-> SpawnRanges(0, T, C \div T, Rem(C, T), 0) ]
    /\ UNCHANGED << pc, frameVars, simVars, gridVars, currentIndex, threads, joined,
                    workerVars, passVars >>

\* the impulse of one pair found colliding, no other thread at work
ProbeImpulse ==
    /\ probe = NoProbe
    /\ \E r \in ProbeRadii, d \in Separations, v1 \in ProbeVels, v2 \in ProbeVels,
          e \in Entropies :
          /\ d[1] * d[1] + d[2] * d[2] < (r + r) * (r + r)
          /\ LET n == Normal(d[1], d[2], r + r)
                 w1 == NewVelI(v1, v2, n, e)
                 w2 == NewVelJ(v1, v2, n, e)
             IN  probe' = [ op |-> "impulse", radius |-> r, d |-> d, entropy |-> e,
                            v1 |-> v1, v2 |-> v2, n |-> n, w1 |-> w1, w2 |-> w2 ]
    /\ UNCHANGED << pc, frameVars, simVars, gridVars, currentIndex, threads, joined,
                    workerVars, passVars >>

PureNext ==
    \/ ProbeKey
    \/ ProbePartition
    \/ ProbeImpulse

PureSpec == PureInit /\ [][PureNext]_vars

(***************************************************************************)
(* Properties of the functions applied alone (PureSpec).                   *)
(***************************************************************************)
RangeSize(rg) == rg[2] - rg[1]

\* C6: for every number of occupied cells and every thread count (the
\* default when hardware_concurrency() reports 0, so never 0) the ranges
\* handed to the workers are contiguous, start at 0, end at the number of
\* cells, give every cell index to exactly one worker, differ in size by at
\* most one, and the larger ones, C mod T of them, come first.
C6_PartitionCoversCells ==
    probe.op = "partition" =>
        LET R == probe.ranges
            T == probe.T
            C == probe.cells
        IN  /\ T >= 1
            /\ T = (IF probe.hw = 0 THEN DefaultThreads ELSE probe.hw)
            /\ Len(R) = T
            /\ R[1][1] = 0
            /\ R[T][2] = C
            /\ \A k \in 1 .. T : R[k][1] <= R[k][2]
            /\ \A k \in 1 .. (T - 1) : R[k][2] = R[k + 1][1]
            /\ \A c \in 0 .. (C - 1) :
                  Cardinality({ k \in 1 .. T : R[k][1] <= c /\ c < R[k][2] }) = 1
            /\ \A k, m \in 1 .. T :
                  /\ RangeSize(R[k]) - RangeSize(R[m]) <= 1
                  /\ k <= m => RangeSize(R[k]) >= RangeSize(R[m])
            /\ Cardinality({ k \in 1 .. T : RangeSize(R[k]) = (C \div T) + 1 }) = C % T

\* six cells split among the four default threads: two ranges of two cells,
\* then two ranges of one
C6_Witness ==
    /\ probe.op = "partition"
    /\ probe.hw = 0
    /\ probe.cells = 6
    /\ probe.ranges = << << 0, 2 >>, << 2, 4 >>, << 4, 5 >>, << 5, 6 >> >>

\* the relative velocity of the pair along the normal, before and after
ProbePre == RelVel(probe.v1, probe.v2, probe.n)

ProbePost == RelVel(probe.w1, probe.w2, probe.n)

\* the separation lies along an axis or is zero: the normal has components
\* 0, 1, -1 (or those of the coincident case) and no product is rounded
AlongAxis(d) == d[1] = 0 \/ d[2] = 0

\* C7: resolving one colliding pair with ENTROPY = 0 leaves the relative
\* velocity along the normal the exact negation of what it was; with
\* ENTROPY > 0 its magnitude, when it is not zero, strictly decreases.
\* Stated for the separations along an axis, where rounding plays no part.
C7_NormalVelocityReversed ==
    (probe.op = "impulse" /\ AlongAxis(probe.d)) =>
        /\ probe.entropy = 0 => ProbePost = -ProbePre
        /\ (probe.entropy > 0 /\ ProbePre # 0) => Abs(ProbePost) < Abs(ProbePre)

\* the same for the pairs whose centres do not coincide
C7_HoldsApartFromCoincident ==
    (probe.op = "impulse" /\ AlongAxis(probe.d) /\ probe.d # << 0, 0 >>) =>
        /\ probe.entropy = 0 => ProbePost = -ProbePre
        /\ (probe.entropy > 0 /\ ProbePre # 0) => Abs(ProbePost) < Abs(ProbePre)

\* the scenario of radius 1, centres 1.5 apart, velocities (1,0) and (-1,0)
C7_Scenario ==
    /\ probe.op = "impulse"
    /\ probe.radius = Scale
    /\ probe.d = << (3 * Scale) \div 2, 0 >>
    /\ probe.entropy = 0
    /\ probe.v1 = << Scale, 0 >>
    /\ probe.v2 = << -Scale, 0 >>
    /\ probe.w1 = << -Scale, 0 >>
    /\ probe.w2 = << Scale, 0 >>

\* C8: for every position, negative coordinates included, computeCellKey
\* returns (floor(x / cellSize), floor(y / cellSize)).
C8_KeyIsFloor ==
    probe.op = "key" =>
        probe.key = << probe.x \div (CELL_SIZE * Scale), probe.y \div (CELL_SIZE * Scale) >>

\* the same for the positions with no negative coordinate
C8_KeyIsFloorInWindow ==
    (probe.op = "key" /\ probe.x >= 0 /\ probe.y >= 0) =>
        probe.key = << probe.x \div (CELL_SIZE * Scale), probe.y \div (CELL_SIZE * Scale) >>

(***************************************************************************)
(* Properties of the frame loop and of the resolver pass (Spec).           *)
(***************************************************************************)
RangeOf(sq) == { sq[k] : k \in DOMAIN sq }

OrderedPairs == { ij \in Particles \X Particles : ij[1] < ij[2] }

\* squared distance < (radius_i + radius_j)^2, and <=, for any two particles
Closer(p, r, i, j) ==
    /\ Abs(p[j][1] - p[i][1]) < r + r
    /\ Abs(p[j][2] - p[i][2]) < r + r
    /\ Dist2(p, i, j) < (r + r) * (r + r)

Within(p, r, i, j) ==
    /\ Abs(p[j][1] - p[i][1]) <= r + r
    /\ Abs(p[j][2] - p[i][2]) <= r + r
    /\ Dist2(p, i, j) <= (r + r) * (r + r)

\* the pairs a check of all pairs finds colliding
BruteForce == { { ij[1], ij[2] } : ij \in { c \in OrderedPairs : Closer(pos, radius, c[1], c[2]) } }

\* cellSize >= the sum of any two radii
CellHoldsRadii == CELL_SIZE * Scale >= radius + radius

\* C1: when the cell is at least as wide as the sum of two radii, the pairs
\* one resolver pass finds colliding are the pairs a brute-force check of
\* all pairs finds closer than the sum of their radii: during the pass no
\* far pair is reported, and when the pass is over no close pair is missing.
C1_ScanEqualsBruteForce ==
    CellHoldsRadii =>
        /\ pc \in { "spawn", "join", "draw" } => detected \subseteq BruteForce
        /\ pc = "draw" => detected = BruteForce

\* two workers, several cells, a colliding pair found and a far pair left out
C1_Witness ==
    /\ pc = "draw"
    /\ numThreads = 2
    /\ totalCells >= 2
    /\ detected # {}
    /\ \E ij \in OrderedPairs : { ij[1], ij[2] } \notin detected /\ tested[{ ij[1], ij[2] }] > 0

\* the worker waits for a mutex another thread holds
Blocked(t) == wpc[t] = "lock" /\ mutex[FirstLock(t)] # NoThread

\* C2: the two mutexes one scoped_lock asks for belong to two distinct
\* particles, and a worker that waits for a mutex waits for one held by
\* another worker that is itself not waiting: its next step (the try of its
\* second mutex, a write, the release) is enabled, so no set of workers
\* waits for each other.
C2_NoDeadlock ==
    \A t \in Threads :
        /\ wpc[t] \in { "lock", "try", "writei", "writej", "unlock" }
              => Cur(t).i # Cur(t).j
        /\ Blocked(t) =>
              \E u \in Threads \ {t} :
                  /\ mutex[FirstLock(t)] = u
                  /\ wpc[u] \in { "try", "writei", "writej", "unlock" }

\* a worker that backed off from its second mutex now waits for it
C2_Witness ==
    \E t \in Threads : Blocked(t) /\ wloc[t].first = 1

\* C3: a worker inside the write section of a pair holds the mutexes of
\* both particles of the pair, and no two workers are inside write sections
\* that share a particle.
C3_WritesUnderBothLocks ==
    \A t \in Threads :
        wpc[t] \in { "writei", "writej", "unlock" } =>
            /\ mutex[Cur(t).i] = t
            /\ mutex[Cur(t).j] = t
            /\ \A u \in Threads \ {t} :
                  wpc[u] \in { "writei", "writej", "unlock" } =>
                      CurPair(t) \cap CurPair(u) = {}

\* a worker writes while another waits for a mutex of the pair being written
C3_Witness ==
    \E t \in Threads, u \in Threads :
        /\ t # u
        /\ wpc[t] \in { "writei", "writej" }
        /\ Blocked(u)
        /\ FirstLock(u) \in CurPair(t)

\* C4: outside the spawn and the join (drawing, the top of the loop, the
\* integrator, the boundary handling, the grid rebuild, the exit) no worker
\* exists or runs, no mutex is held and the thread list is empty.
C4_JoinBeforeRender ==
    pc \in { "draw", "loop", "integrate", "boundary", "grid", "exit" } =>
        /\ \A t \in Threads : wpc[t] = "none"
        /\ \A i \in Particles : mutex[i] = NoThread
        /\ threads = << >>

\* the second frame draws after a pass of two workers that found collisions
C4_Witness ==
    /\ pc = "draw"
    /\ frame = 2
    /\ numThreads = 2
    /\ detected # {}

\* the pairs one worker finds colliding when it runs over all the cells in
\* the order keys
SingleThreadDetected(keys) ==
    { { w.i, w.j } : w \in { x \in RangeOf(RangeTests(0, Len(keys), keys, grid)) :
                              Collides(pos, radius, x.i, x.j) } }

\* C5: the pairs found colliding by the workers of a pass, whatever their
\* number and interleaving, are the pairs a single worker finds over the
\* whole cell list, in whichever order the cells are listed.
C5_DetectionIndependentOfThreads ==
    pc = "draw" => \A keys \in KeyOrders(grid) : detected = SingleThreadDetected(keys)

\* two workers shared three cells and found two colliding pairs
C5_Witness ==
    /\ pc = "draw"
    /\ numThreads = 2
    /\ totalCells = 3
    /\ Cardinality(detected) >= 2

\* the key of the bucket that holds particle i
GridKeyOf(i) ==
    CHOOSE k \in DOMAIN grid : \E a \in 1 .. Len(grid[k]) : grid[k][a] = i

\* the 3x3 neighbourhood of a key: the key and the keys the pass looks up
Neighbourhood(k) ==
    { k } \cup { << k[1] + o[1], k[2] + o[2] >> : o \in RangeOf(NeighborOffsets) }

\* C9: once the grid is rebuilt, and the cell at least as wide as the sum of
\* two radii, the 3x3 neighbourhood of a particle's cell holds the cell of
\* every other particle at a distance <= the sum of the radii.
C9_NeighbourhoodHoldsClosePairs ==
    (pc \in { "spawn", "join", "draw" } /\ CellHoldsRadii) =>
        \A i \in Particles, j \in Particles :
            (i # j /\ Within(pos, radius, i, j)) =>
                /\ \E k \in DOMAIN grid : \E a \in 1 .. Len(grid[k]) : grid[k][a] = i
                /\ GridKeyOf(j) \in Neighbourhood(GridKeyOf(i))

\* the boundary case: the cell exactly as wide as the sum of the radii, two
\* particles in different cells at exactly that distance
C9_Witness ==
    /\ pc = "spawn"
    /\ CELL_SIZE * Scale = radius + radius
    /\ \E i \in Particles, j \in Particles :
          /\ i # j
          /\ Dist2(pos, i, j) = (radius + radius) * (radius + radius)
          /\ GridKeyOf(i) # GridKeyOf(j)

\* C10: a frame whose dt is negative is aborted: the integrator does not
\* apply that dt to positions or velocities.
C10_NegativeDtRejected ==
    [][(pc = "integrate" /\ dt < 0) => (pos' = pos /\ vel' = vel)]_vars

\* C11: the integrator step leaves every particle with
\* position_new = position_old + velocity_old * dt (the velocity held before
\* this frame's velocity update) and velocity_new = velocity_old +
\* acceleration * dt, the sums being float sums, and leaves the
\* accelerations as they were.
C11_IntegratorStep ==
    [][pc = "integrate" =>
          /\ \A i \in Particles :
                /\ pos'[i] = << FAdd(pos[i][1], vel[i][1] * dt), FAdd(pos[i][2], vel[i][2] * dt) >>
                /\ vel'[i] = << FAdd(vel[i][1], acc[i][1] * dt), FAdd(vel[i][2], acc[i][2] * dt) >>
          /\ acc' = acc]_vars

\* the first frame, dt = 1: particle 0 moved left by its old velocity and
\* not down by the velocity gravity has just given it
C11_Witness ==
    /\ pc = "boundary"
    /\ frame = 1
    /\ dt = 1
    /\ pos[0] = << 19 * Scale, 14 * Scale >>
    /\ vel[0] = << -Scale, GRAVITY * Scale >>

(***************************************************************************)
(* Properties of the resolver pass under fair scheduling (LiveSpec).       *)
(***************************************************************************)
\* C12: under fair scheduling every resolver pass completes: the frame that
\* spawns its workers reaches the drawing, which follows the join of all of
\* them, and every worker that runs its loops finishes its cell range.
C12_PassCompletes ==
    /\ (pc = "spawn") ~> (pc = "draw")
    /\ \A t \in Threads : (wpc[t] = "test") ~> (wpc[t] = "done")

\* a pass of two workers over two cells is over, all three pairs resolved:
\* the workers met at the mutexes of shared particles
C12_Witness ==
    /\ pc = "draw"
    /\ numThreads = 2
    /\ totalCells = 2
    /\ Cardinality(detected) = 3
    /\ \A t \in Threads : wpc[t] = "none"

(***************************************************************************)
(* More properties of the resolver pass (Spec).                            *)
(***************************************************************************)
\* the worker has found its pair colliding and is resolving it
Resolving(t) ==
    wpc[t] \in { "readi", "readj", "lock", "try", "writei", "writej", "unlock" }

\* the pair the worker resolves has coincident centres
Coincident(t) == pos[Cur(t).i] = pos[Cur(t).j]

\* C13: whenever a worker computes the normal of a colliding pair, in the
\* intra-cell or in the inter-cell pass, the divisor `distance` is not zero,
\* also for two particles at identical coordinates (it is then 0.1).
C13_DivisorNonZero ==
    \A t \in Threads :
        Resolving(t) =>
            /\ NormalDivisor(pos[Cur(t).j][1] - pos[Cur(t).i][1],
                             pos[Cur(t).j][2] - pos[Cur(t).i][2]) # 0
            /\ Coincident(t) =>
                  NormalDivisor(pos[Cur(t).j][1] - pos[Cur(t).i][1],
                                pos[Cur(t).j][2] - pos[Cur(t).i][2]) = DegenerateDistance

\* a worker writes the velocities of two particles at identical coordinates
\* while the other resolves a pair of two neighbouring cells
C13_Witness ==
    \E t \in Threads, u \in Threads :
        /\ wpc[t] = "writei"
        /\ Coincident(t)
        /\ Cur(t).kind = "intra"
        /\ Resolving(u)
        /\ Cur(u).kind = "inter"

\* the sum over all particles of each velocity component
RECURSIVE TotalFrom(_, _)
TotalFrom(v, i) ==
    IF i >= NumParticles THEN << 0, 0 >>
    ELSE << v[i][1] + TotalFrom(v, i + 1)[1], v[i][2] + TotalFrom(v, i + 1)[2] >>

Total(v) == TotalFrom(v, 0)

\* the worker is about to write a velocity computed from a value that is no
\* longer the particle's velocity: the write undoes what was applied since
StaleWrite(t) ==
    \/ wpc[t] = "writei" /\ wloc[t].v1 # vel[Cur(t).i]
    \/ wpc[t] \in { "writei", "writej" } /\ wloc[t].v2 # vel[Cur(t).j]

\* C14: a resolver pass conserves total velocity, whatever the interleaving
\* of the workers: the sum of each velocity component after the pass is the
\* sum before it, and no write of a worker is computed from a velocity read
\* before another worker's impulse on the same particle.
C14_TotalVelocityConserved ==
    /\ pc = "draw" => Total(vel) = Total(velBefore)
    /\ \A t \in Threads : ~StaleWrite(t)

\* the sums alone, when the pass is over
C14_SumsAtDraw ==
    pc = "draw" => Total(vel) = Total(velBefore)

\* the same for a pass run by a single worker, in the first frame
C14_HoldsForOneWorker ==
    (numThreads = 1 /\ frame = 1) =>
        /\ pc = "draw" => Total(vel) = Total(velBefore)
        /\ \A t \in Threads : ~StaleWrite(t)

\* the cells of the range handed to worker t
CellsOf(t) == { CellKeys[c] : c \in (wrange[t][1] + 1) .. wrange[t][2] }

\* C15: in one resolver pass every pair of distinct particles is tested at
\* most once across all workers; a test of the intra-cell loops is of two
\* particles of one cell of the worker's range, and a test of the neighbour
\* loops is of particles i < j of two different cells, the cell of i being
\* a cell of the worker's range (the current cell).
C15_PairTestedAtMostOnce ==
    /\ \A pr \in Pairs : tested[pr] <= 1
    /\ \A t \in Threads : \A k \in 1 .. Len(wwork[t]) :
          LET w == wwork[t][k]
          IN  /\ w.i # w.j
              /\ GridKeyOf(w.i) \in CellsOf(t)
              /\ w.kind = "intra" => GridKeyOf(w.j) = GridKeyOf(w.i)
              /\ w.kind = "inter" => (w.i < w.j /\ GridKeyOf(w.j) # GridKeyOf(w.i))
              /\ \A u \in Threads : \A m \in 1 .. Len(wwork[u]) :
                    (<< u, m >> # << t, k >>) =>
                        { wwork[u][m].i, wwork[u][m].j } # { w.i, w.j }

\* both workers are done; a pair whose two cells went to different workers
\* was tested once, and so was a pair of one cell
C15_Witness ==
    /\ pc = "join"
    /\ \A t \in Threads : wpc[t] = "done"
    /\ \E i \in Particles, j \in Particles :
          /\ GridKeyOf(i) \in CellsOf(0)
          /\ GridKeyOf(j) \in CellsOf(1)
          /\ tested[{ i, j }] = 1
    /\ \E i \in Particles, j \in Particles :
          /\ i # j
          /\ GridKeyOf(i) = GridKeyOf(j)
          /\ tested[{ i, j }] = 1

\* C16: from the spawn of the workers to the join the resolver pass changes
\* velocities only: no step taken then changes a position, an acceleration,
\* a bucket of the grid, the key set of the grid (a neighbour lookup inserts
\* no absent key) or the cell-key list the partition was made from.
C16_PassChangesVelocitiesOnly ==
    [][(pc = "spawn" \/ pc = "join") =>
          /\ pos' = pos
          /\ acc' = acc
          /\ grid' = grid
          /\ (DOMAIN grid') = (DOMAIN grid)
          /\ CellKeys' = CellKeys]_vars

\* both workers are done with their ranges, velocities were changed, and
\* a cell of the grid has a neighbour key the map does not hold
C16_Witness ==
    /\ pc = "join"
    /\ numThreads = 2
    /\ \A t \in Threads : wpc[t] = "done"
    /\ vel # velBefore
    /\ \E k \in DOMAIN grid : \E c \in Neighbourhood(k) : c \notin DOMAIN grid

\* the places << key, position in the bucket >> of the grid that hold index i
PlacesOf(i) ==
    UNION { { << k, a >> : a \in { b \in 1 .. Len(grid[k]) : grid[k][b] = i } } :
            k \in DOMAIN grid }

\* C17: after the grid rebuild of every frame each particle index appears
\* in exactly one bucket, exactly once; the key of that bucket is
\* computeCellKey of the particle's current position; no bucket is empty;
\* and nothing of an earlier frame survives: every key is the key of a
\* current position and every entry is where its particle now is.
C17_GridRebuiltFromPositions ==
    pc \in { "spawn", "join", "draw" } =>
        /\ \A i \in Particles : Cardinality(PlacesOf(i)) = 1
        /\ \A k \in DOMAIN grid :
              /\ Len(grid[k]) > 0
              /\ \A a \in 1 .. Len(grid[k]) :
                    /\ grid[k][a] \in Particles
                    /\ computeCellKey(pos[grid[k][a]][1], pos[grid[k][a]][2]) = k
        /\ DOMAIN grid = { computeCellKey(pos[i][1], pos[i][2]) : i \in Particles }

\* the second rebuild: the particles have left the cells they started in,
\* none of which is a key any more
C17_Witness ==
    /\ pc = "spawn"
    /\ frame = 2
    /\ DOMAIN grid # {}
    /\ \A k \in DOMAIN grid :
          k \notin { computeCellKey(pl[1], pl[2]) : pl \in Places }

\* the stage that follows each stage of the frame loop
StageOrder ==
    { << "loop", "integrate" >>, << "integrate", "boundary" >>, << "boundary", "grid" >>,
      << "grid", "spawn" >>, << "spawn", "join" >>, << "join", "draw" >>,
      << "draw", "loop" >>, << "loop", "exit" >> }

\* C18: every frame runs its stages in the order integrator, boundary
\* handling, grid rebuild, resolver (spawn, then join), render, and the next
\* frame starts only after the render; a frame is counted only when its
\* first stage starts; the workers run during the resolver stage alone; and
\* while the resolver runs the grid is the one built from the positions the
\* integrator and the boundary handling of this frame have left.
C18_StagesInOrder ==
    [][/\ pc' # pc => << pc, pc' >> \in StageOrder
       /\ frame' # frame => (pc = "loop" /\ pc' = "integrate" /\ frame' = frame + 1)
       /\ (\E t \in Threads : wpc'[t] # wpc[t]) => (pc = "spawn" \/ pc = "join")
       /\ (pc = "spawn" \/ pc = "join") => grid = GridFill(EmptyGrid, pos, 0)]_vars

\* the second frame has gone through all its stages and the loop is left
C18_Witness ==
    /\ pc = "exit"
    /\ frame = MaxFrames
    /\ vel # velBefore
    /\ grid = GridFill(EmptyGrid, pos, 0)

(***************************************************************************)
(* More properties of the functions applied alone (PureSpec).              *)
(***************************************************************************)
\* a vector of length 1 in the direction of the separation d
UnitAlong(n, d) ==
    /\ n[1] * n[1] + n[2] * n[2] = Scale * Scale
    /\ n[1] * d[2] = n[2] * d[1]
    /\ n[1] * d[1] + n[2] * d[2] > 0

\* a vector of length 1 along an axis
UnitAlongAxis(n) ==
    n \in { << Scale, 0 >>, << -Scale, 0 >>, << 0, Scale >>, << 0, -Scale >> }

\* C19: the normal used for the impulse of a colliding pair is the
\* separation divided by its length, a vector of unit length; for coincident
\* centres it is a unit vector along a fixed axis.
C19_NormalIsUnit ==
    probe.op = "impulse" =>
        /\ probe.d # << 0, 0 >> => UnitAlong(probe.n, probe.d)
        /\ probe.d = << 0, 0 >> => UnitAlongAxis(probe.n)

\* the same for the pairs whose centres do not coincide
C19_HoldsApartFromCoincident ==
    (probe.op = "impulse" /\ probe.d # << 0, 0 >>) => UnitAlong(probe.n, probe.d)

\* the normal of a coincident pair is the sum of the radii divided by 0.1
C19_CoincidentNormal ==
    (probe.op = "impulse" /\ probe.d = << 0, 0 >>) =>
        probe.n = << (2 * probe.radius * Scale) \div DegenerateDistance, 0 >>

====
